---------------------------- MODULE Spec2Model ----------------------------
(***************************************************************************)
(* Block-cipher modes of operation (ECB, CBC, CTR) with the padding and    *)
(* blocking helpers of src/src/main.rs.                                    *)
(*                                                                         *)
(* A byte is a number in 0..255, a Vec<u8> a sequence of bytes, a block a  *)
(* sequence of BLOCK_SIZE bytes.  Rust indexes from 0, TLA+ from 1: the    *)
(* Rust index i is the TLA+ index i + 1.                                   *)
(*                                                                         *)
(* A Rust function either returns a value or panics.  A call's outcome is  *)
(* a record: Ok(v) for a returned value, Panic(why) for a panic.  The      *)
(* functions of main.rs return plain Vec<u8>, never a Result, so no other  *)
(* kind of outcome exists.                                                 *)
(***************************************************************************)
EXTENDS Integers, Sequences, FiniteSets, TLC

VARIABLES
    plain_text,       \* the byte vector handed to the first call
    key,              \* the key of the last mode call
    nonce,            \* the block rand::random() returned to the last call
    counter_in,       \* the counter handed to increment_counter
    counter,          \* the counter after increment_counter
    overflow_checks,  \* build profile: TRUE = debug (overflow panics)
    pc,               \* which call has completed
    out               \* the outcome of the last call

vars == <<plain_text, key, nonce, counter_in, counter, overflow_checks, pc, out>>

-----------------------------------------------------------------------------
(* Program constants *)

BLOCK_SIZE == 16

U8_MAX == 255

(* Bounds of the model *)

\* longest run of fill bytes at the front of an input vector
MaxFill == 32

\* longest arbitrary tail behind the fill bytes of an input vector
MaxTail == 2

-----------------------------------------------------------------------------
(* Outcomes *)

Ok(v) == [kind |-> "ok", data |-> v, why |-> ""]

Panic(w) == [kind |-> "panic", data |-> <<>>, why |-> w]

IndexOutOfBounds == "index out of bounds"

SliceOutOfRange == "range end index out of range for slice"

UnwrapNone == "called Option::unwrap() on a None value"

SubtractOverflow == "attempt to subtract with overflow"

RemoveOutOfBounds == "removal index should be < len"

-----------------------------------------------------------------------------
(* Bytes *)

RECURSIVE xor_bits(_, _, _)
xor_bits(a, b, n) ==
    IF n = 0 THEN 0
    ELSE (((a % 2) + (b % 2)) % 2) + 2 * xor_bits(a \div 2, b \div 2, n - 1)

\* u8 ^ u8
xor_u8(a, b) == xor_bits(a, b, 8)

Front(s) == SubSeq(s, 1, Len(s) - 1)

RECURSIVE concat(_)
concat(blocks) ==
    IF blocks = <<>> THEN <<>> ELSE blocks[1] \o concat(Tail(blocks))

-----------------------------------------------------------------------------
(* Padding *)

\* a faulty pad: no padding at all for data of an aligned length
pad_no_extra_block(data) ==
    LET number_pad_bytes == (BLOCK_SIZE - (Len(data) % BLOCK_SIZE)) % BLOCK_SIZE
    IN  data \o [i \in 1..number_pad_bytes |-> number_pad_bytes]

pad(data) ==
    LET number_pad_bytes == BLOCK_SIZE - (Len(data) % BLOCK_SIZE)
    IN  data \o [i \in 1..number_pad_bytes |-> number_pad_bytes]

\* Vec::pop, n times over; a pop of the empty vector returns None, which the
\* loop of un_pad ignores, so the pops left over once the vector is empty
\* change nothing
RECURSIVE pop_n(_, _)
pop_n(data, n) ==
    IF n = 0 \/ data = <<>> THEN data
    ELSE pop_n(Front(data), n - 1)

\* a faulty un_pad: k further pops after the first, k + 1 bytes in all
un_pad_one_more(data, checks) ==
    IF data = <<>> THEN Panic(UnwrapNone)
    ELSE Ok(pop_n(Front(data), data[Len(data)]))

\* number_of_bytes_to_remove - 1 is a u8 subtraction: for 0 it panics in a
\* build with overflow checks and wraps to 255 in a build without
un_pad(data, checks) ==
    IF data = <<>> THEN Panic(UnwrapNone)
    ELSE LET number_of_bytes_to_remove == data[Len(data)]
             popped == Front(data)
         IN  IF number_of_bytes_to_remove = 0
             THEN IF checks THEN Panic(SubtractOverflow)
                  ELSE Ok(pop_n(popped, U8_MAX))
             ELSE Ok(pop_n(popped, number_of_bytes_to_remove - 1))

-----------------------------------------------------------------------------
(* Blocks *)

RECURSIVE group_from(_, _, _)
group_from(data, i, blocks) ==
    IF i < Len(data)
    THEN IF i + BLOCK_SIZE > Len(data) THEN Panic(SliceOutOfRange)
         ELSE group_from(data, i + BLOCK_SIZE,
                         Append(blocks, SubSeq(data, i + 1, i + BLOCK_SIZE)))
    ELSE Ok(blocks)

group(data) == group_from(data, 0, <<>>)

un_group(blocks) == concat(blocks)

xor_arrays(array1, array2) ==
    [i \in 1..BLOCK_SIZE |-> xor_u8(array1[i], array2[i])]


-----------------------------------------------------------------------------
(* The block cipher                                                        *)
(*                                                                         *)
(* aes_encrypt and aes_decrypt wrap Aes128 of the external aes crate.  The *)
(* crate is a collaborator with a fixed contract: for each key the two are *)
(* total, deterministic and inverse to each other on 16-byte blocks.  The  *)
(* model keeps that contract with a small keyed substitution-permutation: *)
(* add the round key, substitute each byte by an affine bijection of       *)
(* 0..255 (7 * 183 = 1 mod 256), rotate the bytes by one place.  It is     *)
(* neither the identity nor an involution, and it does not commute with    *)
(* xor, so encrypting where the code must decrypt (or the reverse) shows.  *)

sub_byte(b) == (7 * b + 99) % 256

inv_sub_byte(c) == (183 * ((c + 256 - 99) % 256)) % 256

aes_encrypt(data, k) ==
    [i \in 1..BLOCK_SIZE |->
        sub_byte(xor_u8(data[(i % BLOCK_SIZE) + 1], k[i]))]

aes_decrypt(data, k) ==
    [j \in 1..BLOCK_SIZE |->
        LET i == ((j + BLOCK_SIZE - 2) % BLOCK_SIZE) + 1
        IN  xor_u8(inv_sub_byte(data[i]), k[i])]

-----------------------------------------------------------------------------
(* ECB *)

ecb_encrypt(text, k) ==
    LET blocks == group(pad(text))
    IN  IF blocks.kind # "ok" THEN blocks
        ELSE Ok(un_group([i \in 1..Len(blocks.data) |->
                             aes_encrypt(blocks.data[i], k)]))

\* a faulty ecb_decrypt: the blocks are encrypted again
ecb_decrypt_encrypting(cipher_text, k, checks) ==
    LET ciphers == group(cipher_text)
    IN  IF ciphers.kind # "ok" THEN ciphers
        ELSE un_pad(un_group([i \in 1..Len(ciphers.data) |->
                                 aes_encrypt(ciphers.data[i], k)]), checks)

ecb_decrypt(cipher_text, k, checks) ==
    LET ciphers == group(cipher_text)
    IN  IF ciphers.kind # "ok" THEN ciphers
        ELSE un_pad(un_group([i \in 1..Len(ciphers.data) |->
                                 aes_decrypt(ciphers.data[i], k)]), checks)

-----------------------------------------------------------------------------
(* CBC *)

\* for i in 1..=blocks.len() { ciphers[i] = aes_encrypt(xor_arrays(blocks[i],
\* nonce), &key); nonce = ciphers[i]; }
\* The assigned value is evaluated before the assignee: blocks[i] is indexed
\* first, ciphers[i] second, and either index panics when it is >= len.
RECURSIVE cbc_encrypt_loop(_, _, _, _, _)
cbc_encrypt_loop(blocks, ciphers, prev, i, k) ==
    IF i > Len(blocks) THEN Ok(un_group(ciphers))
    ELSE IF i >= Len(blocks) THEN Panic(IndexOutOfBounds)
    ELSE LET c == aes_encrypt(xor_arrays(blocks[i + 1], prev), k)
         IN  IF i >= Len(ciphers) THEN Panic(IndexOutOfBounds)
             ELSE cbc_encrypt_loop(blocks, [ciphers EXCEPT ![i + 1] = c],
                                   c, i + 1, k)

cbc_encrypt(text, k, iv) ==
    LET blocks == group(pad(text))
    IN  IF blocks.kind # "ok" THEN blocks
        ELSE cbc_encrypt_loop(blocks.data, <<iv>>, iv, 1, k)

\* for i in 0..ciphers.len() { let block = aes_decrypt(ciphers[i], &key);
\* blocks[i] = xor_arrays(block, nonce); nonce = blocks[i] }
\* blocks.remove(0); un_pad(un_group(blocks))
RECURSIVE cbc_decrypt_loop(_, _, _, _, _, _)
cbc_decrypt_loop(ciphers, blocks, prev, i, k, checks) ==
    IF i >= Len(ciphers)
    THEN IF Len(blocks) = 0 THEN Panic(RemoveOutOfBounds)
         ELSE un_pad(un_group(Tail(blocks)), checks)
    ELSE LET p == xor_arrays(aes_decrypt(ciphers[i + 1], k), prev)
         IN  IF i >= Len(blocks) THEN Panic(IndexOutOfBounds)
             ELSE cbc_decrypt_loop(ciphers, [blocks EXCEPT ![i + 1] = p],
                                   p, i + 1, k, checks)

cbc_decrypt(cipher_text, k, checks) ==
    LET ciphers == group(cipher_text)
    IN  IF ciphers.kind # "ok" THEN ciphers
        ELSE IF Len(ciphers.data) = 0 THEN Panic(IndexOutOfBounds)
        ELSE cbc_decrypt_loop(Tail(ciphers.data), <<>>, ciphers.data[1],
                              0, k, checks)

-----------------------------------------------------------------------------
(* CTR *)

RECURSIVE increment_from(_, _)
increment_from(c, i) ==
    IF i < 0 THEN c
    ELSE IF c[i + 1] = U8_MAX
         THEN increment_from([c EXCEPT ![i + 1] = 0], i - 1)
         ELSE [c EXCEPT ![i + 1] = @ + 1]

\* a faulty increment_counter: the carry out of the last byte is lost
increment_counter_no_carry(c) ==
    IF c[8] = U8_MAX THEN [c EXCEPT ![8] = 0] ELSE [c EXCEPT ![8] = @ + 1]

increment_counter(c) == increment_from(c, 7)

concat_arrays(arr1, arr2) ==
    [i \in 1..BLOCK_SIZE |->
        IF i <= BLOCK_SIZE \div 2 THEN arr1[i] ELSE arr2[i - 8]]

ZeroCounter == [i \in 1..8 |-> 0]

\* for i in 1..=blocks.len() { let encypted_v = aes_encrypt(concat_arrays(
\* nonce, counter), &key); ciphers[i] = xor_arrays(blocks[i], encypted_v);
\* increment_counter(&mut counter); }
RECURSIVE ctr_encrypt_loop(_, _, _, _, _, _)
ctr_encrypt_loop(blocks, ciphers, n, ctr, i, k) ==
    IF i > Len(blocks) THEN Ok(un_group(ciphers))
    ELSE LET encypted_v == aes_encrypt(concat_arrays(n, ctr), k)
         IN  IF i >= Len(blocks) THEN Panic(IndexOutOfBounds)
             ELSE IF i >= Len(ciphers) THEN Panic(IndexOutOfBounds)
             ELSE ctr_encrypt_loop(
                      blocks,
                      [ciphers EXCEPT ![i + 1] = xor_arrays(blocks[i + 1], encypted_v)],
                      n, increment_counter(ctr), i + 1, k)

ctr_encrypt(text, k, n) ==
    LET blocks == group(pad(text))
    IN  IF blocks.kind # "ok" THEN blocks
        ELSE ctr_encrypt_loop(blocks.data, <<n>>, n, ZeroCounter, 1, k)

\* for i in 0..ciphers.len() { let v = aes_decrypt(concat_arrays(nonce,
\* counter), &key); blocks[i] = xor_arrays(ciphers[i], v);
\* increment_counter(&mut counter) }  un_pad(un_group(blocks))
RECURSIVE ctr_decrypt_loop(_, _, _, _, _, _, _)
ctr_decrypt_loop(ciphers, blocks, n, ctr, i, k, checks) ==
    IF i >= Len(ciphers) THEN un_pad(un_group(blocks), checks)
    ELSE LET v == aes_decrypt(concat_arrays(n, ctr), k)
             p == xor_arrays(ciphers[i + 1], v)
         IN  IF i >= Len(blocks) THEN Panic(IndexOutOfBounds)
             ELSE ctr_decrypt_loop(ciphers, [blocks EXCEPT ![i + 1] = p],
                                   n, increment_counter(ctr), i + 1, k, checks)

ctr_decrypt(cipher_text, k, checks) ==
    LET ciphers == group(cipher_text)
    IN  IF ciphers.kind # "ok" THEN ciphers
        ELSE IF Len(ciphers.data) = 0 THEN Panic(IndexOutOfBounds)
        ELSE ctr_decrypt_loop(Tail(ciphers.data), <<>>, ciphers.data[1],
                              ZeroCounter, 0, k, checks)

-----------------------------------------------------------------------------
(* Inputs *)

FillBytes == {0, 255}

TailBytes == {0, 2, 16, 17}

Tails == UNION {[1..n -> TailBytes] : n \in 0..MaxTail}

\* a run of one fill byte followed by an arbitrary short tail: every length
\* from 0 to MaxFill + MaxTail, every ending a padding check can meet
Inputs == {[i \in 1..n |-> b] \o t : n \in 0..MaxFill, b \in FillBytes, t \in Tails}

Keys == {[i \in 1..BLOCK_SIZE |-> 0],
         [i \in 1..BLOCK_SIZE |-> (17 * i + 3) % 256]}

\* what rand::random() may return for a [u8; BLOCK_SIZE]
Nonces == {[i \in 1..BLOCK_SIZE |-> 0],
           [i \in 1..BLOCK_SIZE |-> 255 - 13 * i]}

CounterBytes == {0, 254, 255}

Counters == [1..8 -> CounterBytes]

NoCall == [kind |-> "none", data |-> <<>>, why |-> ""]

-----------------------------------------------------------------------------
(* The calls *)

Init ==
    /\ plain_text \in Inputs
    /\ overflow_checks \in BOOLEAN
    /\ key = <<>>
    /\ nonce = <<>>
    /\ counter_in = ZeroCounter
    /\ counter = ZeroCounter
    /\ pc = "start"
    /\ out = NoCall

\* the argument of a call: the program's input, or the previous call's result
Arg == IF pc = "start" THEN plain_text ELSE out.data

Pad ==
    /\ pc = "start"
    /\ out' = Ok(pad(plain_text))
    /\ pc' = "pad"
    /\ UNCHANGED <<plain_text, key, nonce, counter_in, counter, overflow_checks>>

UnPad ==
    /\ pc \in {"start", "pad"}
    /\ out' = un_pad(Arg, overflow_checks)
    /\ pc' = IF pc = "start" THEN "un_pad" ELSE "pad_un_pad"
    /\ UNCHANGED <<plain_text, key, nonce, counter_in, counter, overflow_checks>>

EcbEncrypt ==
    /\ pc = "start"
    /\ \E k \in Keys :
        /\ key' = k
        /\ out' = ecb_encrypt(plain_text, k)
    /\ pc' = "ecb_encrypt"
    /\ UNCHANGED <<plain_text, nonce, counter_in, counter, overflow_checks>>

EcbDecrypt ==
    /\ pc = "start" \/ (pc = "ecb_encrypt" /\ out.kind = "ok")
    /\ \E k \in (IF pc = "start" THEN Keys ELSE {key}) :
        /\ key' = k
        /\ out' = ecb_decrypt(Arg, k, overflow_checks)
    /\ pc' = IF pc = "start" THEN "ecb_decrypt" ELSE "ecb_round_trip"
    /\ UNCHANGED <<plain_text, nonce, counter_in, counter, overflow_checks>>

CbcEncrypt ==
    /\ pc = "start"
    /\ \E k \in Keys, iv \in Nonces :
        /\ key' = k
        /\ nonce' = iv
        /\ out' = cbc_encrypt(plain_text, k, iv)
    /\ pc' = "cbc_encrypt"
    /\ UNCHANGED <<plain_text, counter_in, counter, overflow_checks>>

CbcDecrypt ==
    /\ pc = "start" \/ (pc = "cbc_encrypt" /\ out.kind = "ok")
    /\ \E k \in (IF pc = "start" THEN Keys ELSE {key}) :
        /\ key' = k
        /\ out' = cbc_decrypt(Arg, k, overflow_checks)
    /\ pc' = IF pc = "start" THEN "cbc_decrypt" ELSE "cbc_round_trip"
    /\ UNCHANGED <<plain_text, nonce, counter_in, counter, overflow_checks>>

CtrEncrypt ==
    /\ pc = "start"
    /\ \E k \in Keys, n \in Nonces :
        /\ key' = k
        /\ nonce' = n
        /\ out' = ctr_encrypt(plain_text, k, n)
    /\ pc' = "ctr_encrypt"
    /\ UNCHANGED <<plain_text, counter_in, counter, overflow_checks>>

CtrDecrypt ==
    /\ pc = "start" \/ (pc = "ctr_encrypt" /\ out.kind = "ok")
    /\ \E k \in (IF pc = "start" THEN Keys ELSE {key}) :
        /\ key' = k
        /\ out' = ctr_decrypt(Arg, k, overflow_checks)
    /\ pc' = IF pc = "start" THEN "ctr_decrypt" ELSE "ctr_round_trip"
    /\ UNCHANGED <<plain_text, nonce, counter_in, counter, overflow_checks>>

Next ==
    \/ Pad
    \/ UnPad
    \/ EcbEncrypt
    \/ EcbDecrypt
    \/ CbcEncrypt
    \/ CbcDecrypt
    \/ CtrEncrypt
    \/ CtrDecrypt

Spec == Init /\ [][Next]_vars

(* increment_counter on its own, over counters with every pattern of carry *)

InitCounter ==
    /\ counter_in \in Counters
    /\ counter = counter_in
    /\ plain_text = <<>>
    /\ overflow_checks \in BOOLEAN
    /\ key = <<>>
    /\ nonce = <<>>
    /\ pc = "start"
    /\ out = NoCall

IncrementCounter ==
    /\ pc = "start"
    /\ counter' = increment_counter(counter)
    /\ pc' = "increment_counter"
    /\ UNCHANGED <<plain_text, key, nonce, counter_in, overflow_checks, out>>

NextCounter == IncrementCounter

SpecCounter == InitCounter /\ [][NextCounter]_vars

-----------------------------------------------------------------------------
(* Properties *)

Aligned(data) == Len(data) % BLOCK_SIZE = 0

Blocks(data) ==
    [i \in 1..(Len(data) \div BLOCK_SIZE) |->
        SubSeq(data, (i - 1) * BLOCK_SIZE + 1, i * BLOCK_SIZE)]

\* C1: ECB round trip: for every plaintext (every length from 0 upward,
\* exact multiples of 16 included) and every key, ecb_encrypt completes and
\* ecb_decrypt of its result under the same key completes and returns
\* exactly the plaintext.
EcbRoundTrip ==
    /\ pc = "ecb_encrypt" => out.kind = "ok"
    /\ pc = "ecb_round_trip" => out = Ok(plain_text)

\* a round trip of two full blocks under the non-zero key
EcbRoundTripWitness ==
    /\ pc = "ecb_round_trip"
    /\ Len(plain_text) = 2 * BLOCK_SIZE
    /\ key[1] # 0
    /\ out = Ok(plain_text)

\* C4: pad appends exactly k = 16 - (len mod 16) bytes, each of value k, and
\* changes nothing else: 1 <= k <= 16, the result length is a positive
\* multiple of 16 greater than len, and an input whose length is a multiple
\* of 16 (0 included) gets a full extra block of sixteen 0x10 bytes.
PadAppendsK ==
    pc = "pad" =>
        LET n == Len(plain_text)
            r == out.data
            k == Len(r) - n
        IN  /\ out.kind = "ok"
            /\ 1 <= k /\ k <= BLOCK_SIZE
            /\ k = BLOCK_SIZE - (n % BLOCK_SIZE)
            /\ SubSeq(r, 1, n) = plain_text
            /\ \A i \in (n + 1)..Len(r) : r[i] = k
            /\ Len(r) > 0 /\ Len(r) % BLOCK_SIZE = 0 /\ Len(r) > n
            /\ (n % BLOCK_SIZE = 0 =>
                   /\ Len(r) = n + BLOCK_SIZE
                   /\ \A i \in (n + 1)..(n + BLOCK_SIZE) : r[i] = 16)

\* pad of exactly one block: a second block of sixteen 0x10 bytes
PadAppendsKWitness ==
    /\ pc = "pad"
    /\ Len(plain_text) = BLOCK_SIZE
    /\ Len(out.data) = 2 * BLOCK_SIZE
    /\ out.data[2 * BLOCK_SIZE] = 16

\* C5: un_pad(pad(x)) = x for every byte sequence x, the empty one and those
\* of a length already a multiple of 16 included: un_pad removes exactly the
\* k bytes pad appended.
UnPadInvertsPad ==
    pc = "pad_un_pad" =>
        /\ out = Ok(plain_text)
        /\ \E k \in 1..BLOCK_SIZE :
               Len(out.data) + k = Len(pad(plain_text))

\* un_pad after pad of an input of exactly two blocks ending in a byte that
\* itself looks like padding
UnPadInvertsPadWitness ==
    /\ pc = "pad_un_pad"
    /\ Len(plain_text) = 2 * BLOCK_SIZE
    /\ plain_text[2 * BLOCK_SIZE] = 2
    /\ out = Ok(plain_text)

\* the last k bytes of data are all k, with k = the last byte, in 1..16
ValidPadding(data) ==
    LET k == data[Len(data)]
    IN  /\ 1 <= k /\ k <= BLOCK_SIZE /\ k <= Len(data)
        /\ \A i \in (Len(data) - k + 1)..Len(data) : data[i] = k

\* C6: un_pad fails with an explicit InvalidPadding result (no abort, no
\* truncated data) whenever the last byte k is 0, is greater than 16, or one
\* of the last k bytes differs from k; it returns the data minus its last k
\* bytes only when all k trailing bytes equal k.
UnPadValidates ==
    (pc = "un_pad" /\ plain_text # <<>>) =>
        IF ValidPadding(plain_text)
        THEN out = Ok(SubSeq(plain_text, 1,
                             Len(plain_text) - plain_text[Len(plain_text)]))
        ELSE out.kind = "InvalidPadding"

\* C7: ecb_decrypt of a ciphertext whose length is not a positive multiple
\* of 16 returns the error InvalidCiphertextLength, and cbc_decrypt of a
\* ciphertext shorter than 32 bytes returns the error CiphertextTooShort:
\* an explicit failure result, neither a panic nor a plaintext.
DecryptValidatesLength ==
    /\ (pc = "ecb_decrypt" /\ (plain_text = <<>> \/ ~Aligned(plain_text))) =>
           out.kind = "InvalidCiphertextLength"
    /\ (pc = "cbc_decrypt" /\ Len(plain_text) < 2 * BLOCK_SIZE) =>
           out.kind = "CiphertextTooShort"

\* C[i] = Encrypt(P[i] XOR previous), previous = IV, then C[i - 1]
RECURSIVE CbcChain(_, _, _)
CbcChain(blocks, prev, k) ==
    IF blocks = <<>> THEN <<>>
    ELSE LET c == aes_encrypt(xor_arrays(blocks[1], prev), k)
         IN  <<c>> \o CbcChain(Tail(blocks), c, k)

\* C2: CBC round trip: for every plaintext and key, cbc_encrypt completes
\* and outputs the IV followed by the n chained cipher blocks of the n padded
\* plaintext blocks, and cbc_decrypt of that output returns exactly the
\* plaintext, whatever IV was drawn.
CbcRoundTrip ==
    pc = "cbc_encrypt" =>
        /\ out.kind = "ok"
        /\ out.data = nonce \o un_group(CbcChain(Blocks(pad(plain_text)), nonce, key))
        /\ cbc_decrypt(out.data, key, overflow_checks) = Ok(plain_text)

\* the 8-byte big-endian counter of value i, for i < 256
CounterOf(i) == [j \in 1..8 |-> IF j = 8 THEN i ELSE 0]

\* block i (from 0) XOR Encrypt(nonce || counter_i)
CtrStream(blocks, n, k) ==
    [i \in 1..Len(blocks) |->
        xor_arrays(blocks[i],
                   aes_encrypt(SubSeq(n, 1, 8) \o CounterOf(i - 1), k))]

\* C3: CTR round trip: for every plaintext and key, ctr_encrypt completes and
\* outputs the nonce block followed by the n cipher blocks
\* C[i] = P[i] XOR Encrypt(nonce || counter_i), counter_0 = 0, and
\* ctr_decrypt of that output returns exactly the plaintext, whatever nonce
\* was drawn.
CtrRoundTrip ==
    pc = "ctr_encrypt" =>
        /\ out.kind = "ok"
        /\ out.data = nonce \o un_group(CtrStream(Blocks(pad(plain_text)), nonce, key))
        /\ ctr_decrypt(out.data, key, overflow_checks) = Ok(plain_text)

\* P[i] = Decrypt(C[i]) XOR previous, previous = IV, then the cipher block
\* C[i - 1]
CbcRecovered(ciphers, iv, k) ==
    [i \in 1..Len(ciphers) |->
        xor_arrays(aes_decrypt(ciphers[i], k),
                   IF i = 1 THEN iv ELSE ciphers[i - 1])]

\* C8: cbc_decrypt of IV || C[0..n), n >= 1, recovers every block as
\* P[i] = Decrypt(C[i]) XOR previous, previous being the IV for i = 0 and the
\* cipher block C[i - 1] for i > 0, and passes all n recovered blocks, in
\* order and none dropped, to un_pad.
CbcDecryptChainsCiphertext ==
    (pc = "cbc_decrypt" /\ Aligned(plain_text) /\ Len(plain_text) >= 2 * BLOCK_SIZE) =>
        LET blocks == Blocks(plain_text)
        IN  out = un_pad(un_group(CbcRecovered(Tail(blocks), blocks[1], key)),
                         overflow_checks)

\* C9: ctr_decrypt computes the keystream of the cipher block at index i by
\* ENCRYPTING V = first 8 bytes of the nonce block || big-endian counter i,
\* and P[i] = C[i] XOR that keystream: the keystream ctr_encrypt uses.
CtrDecryptEncryptsCounter ==
    (pc = "ctr_decrypt" /\ Aligned(plain_text) /\ Len(plain_text) >= 2 * BLOCK_SIZE) =>
        LET blocks == Blocks(plain_text)
        IN  out = un_pad(un_group(CtrStream(Tail(blocks), blocks[1], key)),
                         overflow_checks)

\* the counter's bytes 6..8, 3..5 and 1..2 as numbers: the counter's value is
\* Hi * 2^48 + Mid * 2^24 + Lo
Lo(c) == c[6] * 65536 + c[7] * 256 + c[8]

Mid(c) == c[3] * 65536 + c[4] * 256 + c[5]

Hi(c) == c[1] * 256 + c[2]

\* C10: increment_counter replaces the 8-byte big-endian number c by
\* (c + 1) mod 2^64: a 0xFF least-significant byte becomes 0 and the carry
\* moves into the more significant bytes, the bytes above the first non-0xFF
\* byte stay, and the all-0xFF counter wraps to all-zero.
IncrementIsSuccessor ==
    pc = "increment_counter" =>
        LET carry_lo == IF Lo(counter_in) = 16777215 THEN 1 ELSE 0
            carry_mid == IF carry_lo = 1 /\ Mid(counter_in) = 16777215 THEN 1 ELSE 0
            NotMax == {i \in 1..8 : counter_in[i] # 255}
        IN  /\ Len(counter) = 8
            /\ \A i \in 1..8 : counter[i] \in 0..255
            /\ Lo(counter) = (Lo(counter_in) + 1) % 16777216
            /\ Mid(counter) = (Mid(counter_in) + carry_lo) % 16777216
            /\ Hi(counter) = (Hi(counter_in) + carry_mid) % 65536
            /\ IF NotMax = {} THEN counter = ZeroCounter
               ELSE LET j == CHOOSE i \in NotMax : \A m \in NotMax : m <= i
                    IN  /\ \A i \in 1..(j - 1) : counter[i] = counter_in[i]
                        /\ counter[j] = counter_in[j] + 1
                        /\ \A i \in (j + 1)..8 : counter[i] = 0

\* a carry through every byte: all-0xFF wraps to all-zero
IncrementIsSuccessorWitness ==
    /\ pc = "increment_counter"
    /\ \A i \in 1..8 : counter_in[i] = 255
    /\ counter = ZeroCounter

=============================================================================
